---- MODULE Spec2Model ----
(***************************************************************************)
(* Alternating minimization loop of nonneg_matrix_fact.ipynb (cell 2),     *)
(* with the data of cell 1 as its inputs and cvxpy/SCS as its solver.      *)
(*                                                                         *)
(* Numbers.  Factor entries (Y, X) are integers counting multiples of     *)
(* 1e-7; entries of A and of Y*X count multiples of 1e-14, so the product  *)
(* and the difference A - Y*X are exact integer arithmetic.  The objective *)
(* value prob.value is a Frobenius norm, irrational in general: it is kept *)
(* as its square (NormFroSq), a strictly increasing map on values >= 0.    *)
(***************************************************************************)
EXTENDS Integers, Sequences, FiniteSets, TLC

\* ---- sizes (scaled down from the notebook's 10, 10, 5 and 30) ----
m == 2
n == 2
k == 1
MAX_ITERS == 3
\* largest entry of the generated data and of the exact solver's grid
MaxEntry == 1

VARIABLES A, Y_init, X, Y, residual, iter_num, prob, pc, raised, calls, solver

vars == <<A, Y_init, X, Y, residual, iter_num, prob, pc, raised, calls, solver>>

\* ---- matrices: a matrix is a tuple of rows, a row a tuple of entries ----
Rows(M) == Len(M)
Cols(M) == Len(M[1])
Shape(M) == <<Rows(M), Cols(M)>>

RECURSIVE SumTo(_, _)
\* sum of f[1..cnt]
SumTo(f, cnt) == IF cnt = 0 THEN 0 ELSE f[cnt] + SumTo(f, cnt - 1)

Max(a, b) == IF a >= b THEN a ELSE b

\* Y*X of line 125: the matrix product
MatMul(P, Q) ==
    [i \in 1..Rows(P) |->
        [j \in 1..Cols(Q) |->
            SumTo([l \in 1..Cols(P) |-> P[i][l] * Q[l][j]], Cols(P))]]

\* A - (Y*X) of line 125, an axis of length 1 being stretched
Sub(P, Q) ==
    [i \in 1..Max(Rows(P), Rows(Q)) |->
        [j \in 1..Max(Cols(P), Cols(Q)) |->
            P[IF Rows(P) = 1 THEN 1 ELSE i][IF Cols(P) = 1 THEN 1 ELSE j]
          - Q[IF Rows(Q) = 1 THEN 1 ELSE i][IF Cols(Q) = 1 THEN 1 ELSE j]]]

\* cp.norm(., 'fro') of line 125, squared
NormFroSq(M) ==
    SumTo([i \in 1..Rows(M) |->
              SumTo([j \in 1..Cols(M) |-> M[i][j] * M[i][j]], Cols(M))],
          Rows(M))

\* variant: A + Y*X
ObjectivePlus(Yv, Xv) ==
    NormFroSq(Sub(A, [i \in 1..Rows(Yv) |->
                        [j \in 1..Cols(Xv) |-> 0 - MatMul(Yv, Xv)[i][j]]]))

\* the objective of line 125 at numeric factors
Objective(Yv, Xv) == NormFroSq(Sub(A, MatMul(Yv, Xv)))

\* ---- the values a Python name can hold ----
Unbound == [kind |-> "unbound", shape |-> <<0, 0>>, value |-> <<>>]
NdArray(M) == [kind |-> "ndarray", shape |-> Shape(M), value |-> M]
\* cp.Variable(shape=...): no value until a solve assigns one
Variable(r, c) == [kind |-> "Variable", shape |-> <<r, c>>, value |-> <<>>]

NoProb == [status |-> "none", value |-> 0]
NoException == [type |-> "none", args |-> <<>>]

\* ---- cvxpy statuses (cp.OPTIMAL and the others solve() can report) ----
OPTIMAL == "optimal"
Statuses == {OPTIMAL, "optimal_inaccurate", "infeasible", "unbounded"}

\* ---- shape rules applied when line 125 builds A - Y*X ----
MulShapeOK(s, t) == s[2] = t[1]
MulShape(s, t) == <<s[1], t[2]>>
IsScalarShape(s) == s[1] = 1 /\ s[2] = 1
\* numpy-style: every axis equal or of length 1
Broadcastable(s, t) ==
    /\ s[1] = t[1] \/ s[1] = 1 \/ t[1] = 1
    /\ s[2] = t[2] \/ s[2] = 1 \/ t[2] = 1
\* accepted by every cvxpy release: equal shapes, or a scalar operand
SubShapeAccepted(s, t) == s = t \/ IsScalarShape(s) \/ IsScalarShape(t)
\* variant: no shape is rejected when the expression is built
SubShapeNeverRejected(s, t) == FALSE

\* rejected by every cvxpy release
SubShapeRejected(s, t) == ~Broadcastable(s, t)

\* ---- the data of cell 1 ----
Grid == 0..MaxEntry
Pat(r, c, a, b) ==
    [i \in 1..r |-> [j \in 1..c |-> IF (i + j) % 2 = 0 THEN a ELSE b]]
YInputs ==
    {Pat(r, c, a, b) : r \in {1, m, m + 1}, c \in {k, k + 1},
                       a \in Grid, b \in Grid}
AInputs(Y0) ==
    {Pat(m, n, a, b) : a \in Grid, b \in Grid}
    \cup (IF Shape(Y0) = <<m, k>>
          THEN {MatMul(Y0, Pat(k, n, a, b)) : a \in Grid, b \in Grid}
          ELSE {})

\* ---- the solver behind prob.solve(solver=cp.SCS, max_iters=10000) ----
\* "black_box": any status, any objective value, any factor (the entries
\* -2537 and -1 are the -2.53699622e-04 and -1.28808858e-07 of the recorded
\* output, returned with status OPTIMAL); "exact": an exact minimizer of the
\* subproblem over the matrices with entries in Grid.
SolverKinds == {"black_box", "exact"}
SolverEntries == {-2537, -1, 1}
SolverValues == {0, 1}

\* the factor that is a cp.Variable when the problem is solved
FreeName == IF X.kind = "Variable" THEN "X" ELSE "Y"
FreeShape == IF FreeName = "X" THEN X.shape ELSE Y.shape
FixedValue == IF FreeName = "X" THEN Y.value ELSE X.value

\* the objective of line 125 as a function of the free factor
ObjectiveAt(v) ==
    IF FreeName = "X" THEN Objective(Y.value, v) ELSE Objective(v, X.value)

\* variant: the constraint X >= 1 (Y >= 1)
FeasibleFromOne == [1..FreeShape[1] -> [1..FreeShape[2] -> 1..MaxEntry]]

\* the feasible set of the constraint X >= 0 (Y >= 0), within the grid
Feasible == [1..FreeShape[1] -> [1..FreeShape[2] -> Grid]]

MinObjective ==
    LET vals == {ObjectiveAt(v) : v \in Feasible}
    IN  CHOOSE x \in vals : \A y \in vals : x <= y

SolverResults ==
    IF solver = "exact"
    THEN LET best == MinObjective
         IN  {[status |-> OPTIMAL, value |-> best, free |-> v] :
                 v \in {w \in Feasible : ObjectiveAt(w) = best}}
    ELSE {[status |-> OPTIMAL, value |-> val,
           free |-> Pat(FreeShape[1], FreeShape[2], e, 1)] :
              val \in SolverValues, e \in SolverEntries}
         \cup {[status |-> s, value |-> 0, free |-> <<>>] :
                  s \in Statuses \ {OPTIMAL}}

\* ---- the state before cell 2 runs: cell 1 has set A and Y_init ----
Init ==
    /\ Y_init \in YInputs
    /\ A \in AInputs(Y_init)
    /\ solver \in SolverKinds
    /\ X = Unbound
    /\ Y = Unbound
    /\ residual = <<>>
    /\ iter_num = 0
    /\ prob = NoProb
    /\ raised = NoException
    /\ calls = <<>>
    /\ pc = "start"

\* variant: residual = np.zeros(MAX_ITERS - 1)
SetupShort ==
    /\ pc = "start"
    /\ Y' = NdArray(Y_init)
    /\ residual' = [i \in 1..(MAX_ITERS - 1) |-> 0]
    /\ pc' = "for"
    /\ UNCHANGED <<A, Y_init, X, iter_num, prob, raised, calls, solver>>

\* lines 104-108: Y = Y_init; residual = np.zeros(MAX_ITERS)
Setup ==
    /\ pc = "start"
    /\ Y' = NdArray(Y_init)
    /\ residual' = [i \in 1..MAX_ITERS |-> 0]
    /\ pc' = "for"
    /\ UNCHANGED <<A, Y_init, X, iter_num, prob, raised, calls, solver>>

\* variant: range(1, MAX_ITERS), one iteration short
ForNextShort ==
    /\ pc = "for"
    /\ IF iter_num < MAX_ITERS - 1
       THEN iter_num' = iter_num + 1 /\ pc' = "phase"
       ELSE iter_num' = iter_num /\ pc' = "done"
    /\ UNCHANGED <<A, Y_init, X, Y, residual, prob, raised, calls, solver>>

\* variant: the loop is left as soon as two consecutive residuals are equal
ForNextEarlyStop ==
    /\ pc = "for"
    /\ IF /\ iter_num < MAX_ITERS
          /\ ~(iter_num >= 2 /\ residual[iter_num] = residual[iter_num - 1])
       THEN iter_num' = iter_num + 1 /\ pc' = "phase"
       ELSE iter_num' = iter_num /\ pc' = "done"
    /\ UNCHANGED <<A, Y_init, X, Y, residual, prob, raised, calls, solver>>

\* line 109: for iter_num in range(1, 1+MAX_ITERS)
ForNext ==
    /\ pc = "for"
    /\ IF iter_num < MAX_ITERS
       THEN iter_num' = iter_num + 1 /\ pc' = "phase"
       ELSE iter_num' = iter_num /\ pc' = "done"
    /\ UNCHANGED <<A, Y_init, X, Y, residual, prob, raised, calls, solver>>

\* variant: iter_num % 2 == 0
EvenIteration(i) == i % 2 = 0

\* lines 114, 136: iter_num % 2 == 1
OddIteration(i) == i % 2 = 1

\* variant: Y = Y_init placed inside the loop, in the odd branch
SelectPhaseResetsY ==
    /\ pc = "phase"
    /\ IF OddIteration(iter_num)
       THEN X' = Variable(k, n) /\ Y' = NdArray(Y_init)
       ELSE Y' = Variable(m, k) /\ X' = X
    /\ pc' = "build"
    /\ UNCHANGED <<A, Y_init, residual, iter_num, prob, raised, calls, solver>>

\* lines 113-120: the factor to optimize becomes a fresh cp.Variable
SelectPhase ==
    /\ pc = "phase"
    /\ IF OddIteration(iter_num)
       THEN X' = Variable(k, n) /\ Y' = Y
       ELSE Y' = Variable(m, k) /\ X' = X
    /\ pc' = "build"
    /\ UNCHANGED <<A, Y_init, residual, iter_num, prob, raised, calls, solver>>

\* both operands of Y*X are usable and exactly one of them is a variable
Buildable ==
    /\ X.kind \in {"ndarray", "Variable"}
    /\ Y.kind \in {"ndarray", "Variable"}
    /\ ~(X.kind = "Variable" /\ Y.kind = "Variable")
    /\ MulShapeOK(Y.shape, X.shape)

BuildErrorType ==
    IF X.kind = "unbound" \/ Y.kind = "unbound" THEN "NameError"
    ELSE IF X.kind = "None" \/ Y.kind = "None" THEN "TypeError"
    ELSE IF X.kind = "Variable" /\ Y.kind = "Variable" THEN "DCPError"
    ELSE "ValueError"

\* lines 125-126: obj = cp.Minimize(cp.norm(A - Y*X, 'fro')); prob = ...
\* cvxpy checks the shapes while the expression is built, before any solve.
\* Shapes that differ but broadcast are accepted or rejected depending on
\* the cvxpy release: both outcomes are possible.
BuildProblem ==
    /\ pc = "build"
    /\ \/ /\ Buildable
          /\ ~SubShapeRejected(Shape(A), MulShape(Y.shape, X.shape))
          /\ pc' = "solve"
          /\ raised' = raised
       \/ /\ \/ ~Buildable
             \/ ~SubShapeAccepted(Shape(A), MulShape(Y.shape, X.shape))
          /\ raised' = [type |-> BuildErrorType, args |-> <<"shape">>]
          /\ pc' = "raised"
    /\ UNCHANGED <<A, Y_init, X, Y, residual, iter_num, prob, calls, solver>>

\* what solve() leaves in the variable: its value (None unless solved)
Solved(var, r) == [var EXCEPT !.value = r.free]

\* line 127: prob.solve(solver=cp.SCS, max_iters=10000)
Solve ==
    /\ pc = "solve"
    /\ \E r \in SolverResults :
          /\ prob' = [status |-> r.status, value |-> r.value]
          /\ IF FreeName = "X"
             THEN X' = Solved(X, r) /\ Y' = Y
             ELSE Y' = Solved(Y, r) /\ X' = X
          /\ calls' = Append(calls,
                 [iter |-> iter_num, free |-> FreeName, fixed |-> FixedValue,
                  status |-> r.status, value |-> r.value, result |-> r.free])
    /\ pc' = "check"
    /\ UNCHANGED <<A, Y_init, residual, iter_num, raised, solver>>

\* variant: the status is not checked
CheckStatusNoRaise ==
    /\ pc = "check"
    /\ raised' = raised
    /\ pc' = "record"
    /\ UNCHANGED <<A, Y_init, X, Y, residual, iter_num, prob, calls, solver>>

\* variant: a failed solve is retried once before the raise
CheckStatusRetry ==
    /\ pc = "check"
    /\ IF prob.status # OPTIMAL
       THEN IF Len(calls) = iter_num
            THEN raised' = raised /\ pc' = "solve"
            ELSE /\ raised' = [type |-> "Exception",
                               args |-> <<"Solver did not converge!">>]
                 /\ pc' = "raised"
       ELSE /\ raised' = raised
            /\ pc' = "record"
    /\ UNCHANGED <<A, Y_init, X, Y, residual, iter_num, prob, calls, solver>>

\* lines 129-130: if prob.status != cp.OPTIMAL: raise Exception(...)
CheckStatus ==
    /\ pc = "check"
    /\ IF prob.status # OPTIMAL
       THEN /\ raised' = [type |-> "Exception",
                          args |-> <<"Solver did not converge!">>]
            /\ pc' = "raised"
       ELSE /\ raised' = raised
            /\ pc' = "record"
    /\ UNCHANGED <<A, Y_init, X, Y, residual, iter_num, prob, calls, solver>>

\* variant: residual[0] = prob.value
RecordFirstSlot ==
    /\ pc = "record"
    /\ residual' = [residual EXCEPT ![1] = prob.value]
    /\ pc' = "freeze"
    /\ UNCHANGED <<A, Y_init, X, Y, iter_num, prob, raised, calls, solver>>

\* lines 132-133: residual[iter_num-1] = prob.value (0-based there,
\* 1-based here: the entry of iteration iter_num)
Record ==
    /\ pc = "record"
    /\ residual' = [residual EXCEPT ![iter_num] = prob.value]
    /\ pc' = "freeze"
    /\ UNCHANGED <<A, Y_init, X, Y, iter_num, prob, raised, calls, solver>>

\* X.value / Y.value: the numeric array held by the variable, or None
ValueOf(var) ==
    IF var.value = <<>>
    THEN [kind |-> "None", shape |-> <<0, 0>>, value |-> <<>>]
    ELSE NdArray(var.value)

\* variant: the freeze step is missing
FreezeSkipped ==
    /\ pc = "freeze"
    /\ pc' = "for"
    /\ UNCHANGED <<A, Y_init, X, Y, residual, iter_num, prob, raised, calls,
                   solver>>

\* lines 135-139: the solved variable is replaced by its NumPy value
Freeze ==
    /\ pc = "freeze"
    /\ IF OddIteration(iter_num)
       THEN X' = ValueOf(X) /\ Y' = Y
       ELSE Y' = ValueOf(Y) /\ X' = X
    /\ pc' = "for"
    /\ UNCHANGED <<A, Y_init, residual, iter_num, prob, raised, calls, solver>>

Next ==
    \/ Setup
    \/ ForNext
    \/ SelectPhase
    \/ BuildProblem
    \/ Solve
    \/ CheckStatus
    \/ Record
    \/ Freeze

Spec == Init /\ [][Next]_vars

\* ================= properties =================

Body == {"build", "solve", "check", "record", "freeze"}

\* iterations that ran to the end of the loop body
Completed ==
    IF pc = "start" THEN 0
    ELSE IF pc \in {"for", "done"} THEN iter_num
    ELSE iter_num - 1

\* the residual of iteration j has been written
Recorded(j) == iter_num > j \/ (iter_num = j /\ pc \in {"freeze", "for", "done"})

ValidInput == Shape(A) = <<m, n>> /\ Shape(Y_init) = <<m, k>> /\ MAX_ITERS >= 1

AllOptimal == \A j \in 1..Len(calls) : calls[j].status = "optimal"

ConvergenceMessage == <<"Solver did not converge!">>

\* some step of the cell can be taken (at the solve: the solver returns)
NotStuck == IF pc = "solve" THEN SolverResults # {} ELSE ENABLED Next

\* C1: with valid input a run ends in exactly one of two ways: the loop is
\* left after MAX_ITERS iterations, each with an OPTIMAL solve, with a
\* residual history of length MAX_ITERS and both factors numeric; or the
\* convergence error of line 130 is raised.  Nothing else is terminal and a
\* result never comes with fewer than MAX_ITERS successful iterations.
C1_FullResultOrError ==
    ValidInput =>
        /\ pc = "done" =>
              /\ raised.type = "none"
              /\ Len(residual) = MAX_ITERS
              /\ Completed = MAX_ITERS
              /\ Len(calls) = MAX_ITERS
              /\ AllOptimal
              /\ X.kind = "ndarray" /\ Y.kind = "ndarray"
        /\ pc = "raised" =>
              /\ raised.type = "Exception"
              /\ raised.args = ConvergenceMessage
              /\ Completed < MAX_ITERS
        /\ raised.type # "none" => pc = "raised"
        /\ pc \notin {"done", "raised"} => NotStuck

C1_Witness ==
    /\ ValidInput
    /\ pc = "done"
    /\ solver = "black_box"
    /\ Len(residual) = MAX_ITERS
    /\ Len(calls) = MAX_ITERS

\* the phase the driver is in
Phase ==
    IF pc = "raised" THEN "Failed"
    ELSE IF pc \notin Body THEN "Idle"
    ELSE IF X.kind = "Variable" /\ Y.kind # "Variable" THEN "OptimizingX"
    ELSE IF Y.kind = "Variable" /\ X.kind # "Variable" THEN "OptimizingY"
    ELSE "Undetermined"

PhaseOfIteration(i) == IF i % 2 = 1 THEN "OptimizingX" ELSE "OptimizingY"

PhaseParityInv ==
    /\ pc \in Body => Phase = PhaseOfIteration(iter_num)
    /\ pc \in Body => iter_num \in 1..MAX_ITERS
    /\ \A j \in 1..Len(calls) :
          /\ calls[j].iter = j
          /\ calls[j].free = (IF j % 2 = 1 THEN "X" ELSE "Y")

PhaseStep ==
    \/ /\ Phase = "Idle" /\ Phase' = "Idle"
       /\ iter_num' \in {iter_num, iter_num + 1}
    \/ /\ Phase = "Idle" /\ Phase' = PhaseOfIteration(iter_num)
       /\ iter_num' = iter_num
    \/ /\ Phase \in {"OptimizingX", "OptimizingY"}
       /\ Phase' \in {Phase, "Idle", "Failed"}
       /\ iter_num' = iter_num
    \/ /\ Phase = "Failed" /\ Phase' = "Failed"

\* C2: the solver is asked to optimize X in odd iterations and Y in even
\* ones; the run enters OptimizingX at iteration 1, iterations follow each
\* other one by one, and the only steps that change the phase are entering
\* the phase of the current iteration, completing it, and the abort to Failed.
C2_PhaseParity == [](PhaseParityInv) /\ [][PhaseStep]_vars

C2_Witness ==
    /\ pc = "freeze"
    /\ iter_num = 2
    /\ Phase = "OptimizingY"
    /\ Len(calls) = 2
    /\ calls[1].free = "X"
    /\ calls[2].free = "Y"

\* C3: a status other than OPTIMAL in iteration i aborts the run in
\* iteration i: that solve is the last one, the entry of iteration i of the
\* residual history keeps its initial 0, the loop is never left normally,
\* and after the raise nothing runs any more.
C3_AbortOnNonOptimal ==
    /\ \A j \in 1..Len(calls) :
          calls[j].status # "optimal" =>
              /\ j = Len(calls)
              /\ iter_num = j
              /\ pc \in {"check", "raised"}
              /\ residual[j] = 0
              /\ \A i \in 1..(j - 1) : residual[i] = calls[i].value
    /\ pc = "raised" => ~ENABLED Next

C3_Witness ==
    /\ pc = "raised"
    /\ iter_num = 2
    /\ Len(calls) = 2
    /\ calls[1].status = "optimal"
    /\ calls[2].status = "optimal_inaccurate"
    /\ residual[1] = 1
    /\ residual[2] = 0

\* the run was aborted because of the status of its last solve
FailedOnStatus ==
    /\ pc = "raised"
    /\ Len(calls) >= 1
    /\ calls[Len(calls)].status # "optimal"

Carries(exc, text) == \E a \in 1..Len(exc.args) : exc.args[a] = text

\* C4 as stated: the error raised on a non-optimal status carries the
\* number of the failing iteration and the status the solver reported, and
\* comes after exactly that many solver calls.
C4_ErrorCarriesIterationAndStatus ==
    FailedOnStatus =>
        /\ raised.type = "Exception"
        /\ Carries(raised, ToString(iter_num))
        /\ Carries(raised, prob.status)
        /\ Len(calls) = iter_num

\* C4 as amended: the error raised on a non-optimal status is the generic
\* Exception whose only argument is the fixed text "Solver did not
\* converge!": it carries neither the iteration number nor the status.  It
\* is raised in the failing iteration i, after exactly i solver calls, the
\* first i-1 of them OPTIMAL; i and the status are left in iter_num and
\* prob.status.
C4_GenericErrorAfterExactCalls ==
    FailedOnStatus =>
        /\ raised = [type |-> "Exception", args |-> ConvergenceMessage]
        /\ ~Carries(raised, ToString(iter_num))
        /\ ~Carries(raised, prob.status)
        /\ Len(calls) = iter_num
        /\ calls[iter_num].iter = iter_num
        /\ prob.status = calls[iter_num].status
        /\ \A j \in 1..(iter_num - 1) : calls[j].status = "optimal"

C4_Witness ==
    /\ FailedOnStatus
    /\ iter_num = 3
    /\ prob.status = "infeasible"
    /\ Len(calls) = 3
    /\ raised.args = ConvergenceMessage

\* C5: no early stopping.  The loop is left only after iteration MAX_ITERS,
\* with exactly one solver call per iteration, whatever the residuals are;
\* as long as every solve was OPTIMAL the run is neither aborted nor stuck.
C5_NoEarlyStopping ==
    /\ pc = "done" =>
          /\ iter_num = MAX_ITERS
          /\ Len(calls) = MAX_ITERS
          /\ \A j \in 1..MAX_ITERS : calls[j].iter = j
    /\ (AllOptimal /\ Len(calls) >= 1 /\ pc # "done") =>
          /\ pc # "raised"
          /\ NotStuck
          /\ Len(calls) \in {iter_num - 1, iter_num}

\* a full run whose first two residuals are equal and zero
C5_Witness ==
    /\ pc = "done"
    /\ MAX_ITERS >= 3
    /\ residual[1] = 0
    /\ residual[2] = 0
    /\ Len(calls) = MAX_ITERS

RowMismatch == Rows(Y_init) # Rows(A)

\* C6 as stated: with mismatched row counts the run fails before the loop
\* starts: no iteration is entered and the solver is never invoked.
C6_FailsBeforeLoop ==
    RowMismatch =>
        /\ iter_num = 0
        /\ X.kind = "unbound"
        /\ Len(calls) = 0
        /\ pc \in {"start", "raised"}

\* C6 as amended: with row counts that differ and cannot be broadcast
\* (neither is 1) the run fails with zero solver invocations, but inside the
\* loop: Setup and the phase selection of iteration 1 have run, and the
\* error is the ValueError raised while the objective A - Y*X of iteration 1
\* is built, before solve is called.
C6_FailsInFirstBuild ==
    (RowMismatch /\ Rows(Y_init) # 1 /\ Rows(A) # 1) =>
        /\ Len(calls) = 0
        /\ pc \in {"start", "for", "phase", "build", "raised"}
        /\ iter_num <= 1
        /\ pc = "build" => ~ENABLED (BuildProblem /\ pc' = "solve")
        /\ pc = "raised" =>
              /\ raised.type = "ValueError"
              /\ iter_num = 1
              /\ X.kind = "Variable"
              /\ Len(residual) = MAX_ITERS

C6_Witness ==
    /\ pc = "raised"
    /\ Rows(Y_init) = Rows(A) + 1
    /\ Cols(Y_init) = k
    /\ raised.type = "ValueError"
    /\ Len(calls) = 0

AllEntriesAtLeast(M, lo) ==
    \A i \in 1..Rows(M) : \A j \in 1..Cols(M) : M[i][j] >= lo

\* C7: nonnegativity up to tolerance: in every run that returns (Y_init is
\* entrywise nonnegative in every run), every entry of the returned Y and X
\* is >= -eps, eps = 1e-6 being 10 units of 1e-7.
C7_NonnegativeUpToTolerance ==
    (pc = "done" /\ AllEntriesAtLeast(Y_init, 0)) =>
        /\ AllEntriesAtLeast(Y.value, 0 - 10)
        /\ AllEntriesAtLeast(X.value, 0 - 10)

ExactlyFactorizable ==
    /\ ValidInput
    /\ \E X0 \in [1..k -> [1..n -> Grid]] : MatMul(Y_init, X0) = A

\* C8: exact-factorization recovery: if A = Y_init * X0 for a nonnegative
\* X0 and every solve returns an exact minimizer, the residuals recorded for
\* iterations 1 and 2 are 0.
C8_ExactFactorizationRecovered ==
    (solver = "exact" /\ ExactlyFactorizable) =>
        /\ Recorded(1) => residual[1] = 0
        /\ Recorded(2) => residual[2] = 0

C8_Witness ==
    /\ solver = "exact"
    /\ ExactlyFactorizable
    /\ \E i \in 1..m : \E j \in 1..n : A[i][j] > 0
    /\ Recorded(2)
    /\ residual[1] = 0
    /\ residual[2] = 0

\* C9 as stated: in every state the length of the residual history equals
\* the number of iterations completed so far.
C9_LengthIsCompleted == Len(residual) = Completed

\* C9 as amended: the residual history is allocated before the loop with
\* length MAX_ITERS and keeps that length in every later state (between
\* iterations, after the loop, at an abort); the number of completed
\* iterations is the number of entries written, the entries of the
\* iterations not yet recorded still being the initial 0.
C9_PreallocatedLength ==
    /\ pc = "start" => residual = <<>>
    /\ pc # "start" =>
          /\ Len(residual) = MAX_ITERS
          /\ Completed \in 0..MAX_ITERS
          /\ \A j \in 1..MAX_ITERS : ~Recorded(j) => residual[j] = 0

C9_Witness ==
    /\ pc = "for"
    /\ iter_num = 1
    /\ Completed = 1
    /\ Len(residual) = MAX_ITERS
    /\ residual[1] = 1

\* C10: once iteration i has recorded its residual, entry i is exactly the
\* objective value the solver returned in iteration i, and it stays so while
\* later iterations record theirs; every entry is >= 0 (the solver's
\* objective values being >= 0).
C10_ResidualRecording ==
    \A j \in 1..Len(residual) :
        /\ residual[j] >= 0
        /\ Recorded(j) =>
              /\ j <= Len(calls)
              /\ calls[j].status = "optimal"
              /\ residual[j] = calls[j].value

C10_Witness ==
    /\ pc = "freeze"
    /\ iter_num = 2
    /\ residual[1] = 1
    /\ residual[2] = 0
    /\ calls[1].value = 1
    /\ calls[2].value = 0

\* C11: freeze and hand-over.  At the start of every iteration every factor
\* that exists is a numeric array, not a solver variable; X does not exist
\* until iteration 1 creates it; the fixed factor given to the solver is
\* Y_init in iteration 1 and, in iteration i+1, exactly the free-factor
\* value the solver returned in iteration i.
C11_FreezeAndHandOver ==
    /\ pc \in {"for", "phase", "done"} =>
          /\ Y.kind = "ndarray"
          /\ X.kind \in {"ndarray", "unbound"}
          /\ X.kind = "unbound" <=> (iter_num = 0 \/ (iter_num = 1 /\ pc = "phase"))
    /\ pc = "start" => X.kind = "unbound"
    /\ Len(calls) >= 1 => calls[1].fixed = Y_init
    /\ \A i \in 1..(Len(calls) - 1) :
          /\ calls[i].status = "optimal"
          /\ calls[i + 1].fixed = calls[i].result
          /\ calls[i + 1].iter = i + 1

\* iteration 3 is being solved with the Y returned in iteration 2, which is
\* not Y_init
C11_Witness ==
    /\ pc = "check"
    /\ iter_num = 3
    /\ Len(calls) = 3
    /\ calls[2].fixed = calls[1].result
    /\ calls[3].fixed = calls[2].result
    /\ calls[3].fixed # Y_init

\* a step of an iteration in progress (from the phase selection to the freeze)
InIteration == pc \in {"phase"} \cup Body

FrameStep ==
    /\ A' = A
    /\ Y_init' = Y_init
    /\ (InIteration /\ iter_num % 2 = 1) => Y' = Y
    /\ (InIteration /\ iter_num % 2 = 0) => X' = X
    /\ pc \in {"for", "done", "raised"} => (X' = X /\ Y' = Y)
    /\ pc = "start" => X' = X
    /\ residual' # residual =>
          \/ pc = "start"
          \/ /\ InIteration
             /\ \A j \in 1..MAX_ITERS : j # iter_num => residual'[j] = residual[j]

\* Y is Y_init until the first even iteration selects it for optimization
YIsInitial ==
    (pc # "start" /\ (iter_num <= 1 \/ (iter_num = 2 /\ pc = "phase"))) =>
        (Y.kind = "ndarray" /\ Y.value = Y_init)

\* C12: frame.  No step changes A or Y_init; every step of an odd iteration
\* leaves Y unchanged and every step of an even iteration leaves X
\* unchanged, an iteration writing besides its own factor only its own entry
\* of the residual history; so Y is Y_init until the first even iteration
\* (in particular when iteration 1 has completed, the state a run with
\* MAX_ITERS = 1 returns).
C12_Frame == [](YIsInitial) /\ [][FrameStep]_vars

\* iteration 3 (odd) has completed: Y is still what iteration 2 returned,
\* X is what iteration 3 returned, and entry 2 of the residuals is kept
C12_Witness ==
    /\ pc = "for"
    /\ iter_num = 3
    /\ Y.value = calls[2].result
    /\ Y.value # Y_init
    /\ X.value = calls[3].result
    /\ X.value # calls[1].result
    /\ residual[2] = calls[2].value
    /\ residual[3] # residual[2]

\* C13: with every solve an exact minimizer over the nonnegative matrices
\* (Y_init is entrywise nonnegative in every run), the recorded residuals
\* are weakly decreasing: the residual of iteration i is at most that of
\* iteration i-1.
C13_ResidualsWeaklyDecreasing ==
    solver = "exact" =>
        \A i \in 2..MAX_ITERS :
            (pc # "start" /\ Recorded(i)) => residual[i] <= residual[i - 1]

\* three exact iterations with a strict decrease and residuals that are not 0
C13_Witness ==
    /\ solver = "exact"
    /\ AllEntriesAtLeast(Y_init, 0)
    /\ Recorded(3)
    /\ residual[2] < residual[1]
    /\ residual[3] <= residual[2]
    /\ residual[2] > 0
====
